---- MODULE Spec2Model ----
(***************************************************************************)
(* Model of the Firestore/BigQuery stress-test functions:                  *)
(*   - BatchWriter.writeBatchWithRetry            (functions/src/utils.ts) *)
(*   - MonitoringService.createReport / finalizeReport   (monitoring.ts)   *)
(*   - bulkWriteDocuments and cleanupOldDocuments handlers   (index.ts)    *)
(*                                                                         *)
(* JavaScript runs each callback to completion, so one action is one event *)
(* of the event loop (a trigger, the settling of a store call, a timer)    *)
(* together with all the synchronous code that runs up to the next await   *)
(* on the store or on a timer.                                             *)
(***************************************************************************)
EXTENDS Integers, Sequences, FiniteSets, TLC

\* ------------------------------------------------------------------ bounds
\* Largest documents array handed to a direct writeBatchWithRetry call.
MaxDocs == 2
\* Largest maxRetries argument handed to a direct writeBatchWithRetry call.
MaxRetriesArg == 3
\* Largest batchNumber argument handed to a direct writeBatchWithRetry call.
MaxBatchNumber == 1
\* Largest CONFIG.write.totalDocuments / CONFIG.write.batchSize of a run.
MaxTotalDocuments == 3
MaxBatchSize == 2
\* Largest row count the BigQuery table reports.
MaxBigQueryCount == 1
\* Largest number of old / not-old documents in the collection when a
\* cleanup run starts.
MaxOldDocs == 5
MaxFreshDocs == 1
\* Number of hours the clock may advance during a run.
MaxTicks == 1

\* ------------------------------------------------------- program constants
\* maxRetries = 3 (default parameter of writeBatchWithRetry).
DefaultMaxRetries == 3
\* Backoff base: Math.pow(2, attempt) * 100 milliseconds.
BackoffBaseMs == 100
\* .limit(500) of the cleanup query, scaled to 2 documents per page.
PageLimit == 2
\* CONFIG.cleanupThresholdHours (the clock of the model counts hours).
CleanupThresholdHours == 24

\* baseOpts.retryCount: the scheduler invokes a failed handler again, up to
\* this many times.
RetryCount == 3

VARIABLES
  testRunId,    \* DocumentGenerator.testRunId (static, set at class load)
  now,          \* the clock read by Timestamp.now() / Date.now(), in hours
  config,       \* CONFIG.write: [totalDocuments, batchSize]
  collection,   \* documents of CONFIG.collections.stressTest: [id, doc]
  monitoring,   \* documents of the "monitoring" collection: reportId -> report
  writers,      \* writeBatchWithRetry calls in progress: batchNumber -> call
  handler,      \* the bulkWriteDocuments invocation
  cr,           \* the createReport call
  fin,          \* the finalizeReport call
  cleanup       \* the cleanupOldDocuments invocation

vars == <<testRunId, now, config, collection, monitoring, writers, handler,
          cr, fin, cleanup>>

\* ------------------------------------------------------------------ values
RunIds == {"run-a", "run-b"}

NoError == [src |-> "none", id |-> 0, n |-> 0, code |-> 0]

\* The error with which call number n of store operation src (on behalf of
\* call id) rejects. code is the error's enumerable own property (the gRPC
\* status code); src, id and n stand for its message and identity.
StoreError(src, id, n) == [src |-> src, id |-> id, n |-> n, code |-> 14]

\* JSON.stringify(error): only enumerable own properties are serialized; the
\* message and the stack of an Error are not.
JSONStringify(e) == [json |-> "error", code |-> e.code]

NoJSON == [json |-> "absent", code |-> 0]

RECURSIVE SumSeq(_)
SumSeq(s) == IF s = <<>> THEN 0 ELSE Head(s) + SumSeq(Tail(s))

\* The clock when the process starts.
StartTime == 2 * CleanupThresholdHours

\* Time passes between two events.
Tick ==
  /\ now < StartTime + MaxTicks
  /\ now' = now + 1
  /\ UNCHANGED <<testRunId, config, collection, monitoring, writers, handler, cr, fin, cleanup>>

\* ------------------------------------------------------- DocumentGenerator
\* Variant: the run identifier is drawn anew by every call instead of read
\* from the static field (the draw depends on when the call is made).
GenerateDocumentFreshId ==
  [timestamp |-> now,
   metadata  |-> [createdAt |-> now,
                  testRunId |-> IF now = StartTime THEN "run-a" ELSE "run-b"]]

\* generateDocument(): the random payload fields play no part in the
\* protocol and are left out; the timestamps and the run identifier stay.
GenerateDocument ==
  [timestamp |-> now,
   metadata  |-> [createdAt |-> now, testRunId |-> testRunId]]

\* Array.from({ length: n }, () => DocumentGenerator.generateDocument())
GenerateDocuments(n) == [k \in 1..n |-> GenerateDocument]

\* ------------------------------------------------------------- BatchWriter
\* A writeBatchWithRetry call. pc: "commit" (awaiting batch.commit()),
\* "backoff" (awaiting the setTimeout), "returned", "thrown".
\* commits counts the batch.commit() calls, outcomes records how each one
\* settled, waits the setTimeout delays, batch the set operations of the
\* commit in flight, result the returned value (-1: none).
NewCall(documents, batchNumber, maxRetries) ==
  [pc |-> "entry", documents |-> documents, batchNumber |-> batchNumber,
   maxRetries |-> maxRetries, attempt |-> 0, commits |-> 0,
   outcomes |-> <<>>, waits |-> <<>>, batch |-> {}, result |-> -1,
   error |-> NoError]

\* Variant: the document reference is derived from the batch number and the
\* position of the document, the same on every attempt.
BuildBatchDeterministic(w) ==
  { [id |-> <<w.batchNumber, 0, k>>, doc |-> w.documents[k]] :
      k \in 1..Len(w.documents) }

\* Variant: the forEach leaves the first document out of the batch.
BuildBatchSkipFirst(w) ==
  { [id |-> <<w.batchNumber, w.commits + 1, k>>, doc |-> w.documents[k]] :
      k \in 2..Len(w.documents) }

\* documents.forEach: one fresh document reference per document and per
\* attempt (collection.doc() with no argument), each set in the batch.
BuildBatch(w) ==
  { [id |-> <<w.batchNumber, w.commits + 1, k>>, doc |-> w.documents[k]] :
      k \in 1..Len(w.documents) }

\* Variant: the loop is entered while attempt <= maxRetries.
LoopConditionInclusive(attempt, maxRetries) == attempt <= maxRetries

\* while (attempt < maxRetries)
LoopCondition(attempt, maxRetries) == attempt < maxRetries

\* The head of the while loop up to `await batch.commit()`, or the trailing
\* `return 0` when the loop is not entered.
LoopHead(w) ==
  IF LoopCondition(w.attempt, w.maxRetries)
  THEN [w EXCEPT !.pc = "commit", !.batch = BuildBatch(w), !.commits = @ + 1]
  ELSE [w EXCEPT !.pc = "returned", !.result = 0, !.batch = {}]

\* Variant: gives up one attempt early (attempt >= maxRetries - 1).
RetriesExhaustedEarly(attempt, maxRetries) == attempt >= maxRetries - 1

\* Variant: never sees the last attempt (attempt > maxRetries).
RetriesExhaustedLate(attempt, maxRetries) == attempt > maxRetries

\* if (attempt === maxRetries) throw error
RetriesExhausted(attempt, maxRetries) == attempt = maxRetries

\* Math.pow(2, attempt) * 100
\* Variant: the exponent counts the failed attempts from 0.
BackoffDelayFromZero(attempt) == (2 ^ (attempt - 1)) * BackoffBaseMs

BackoffDelay(attempt) == (2 ^ attempt) * BackoffBaseMs

\* batch.commit() resolved: return documents.length
CommitResolved(w) ==
  [w EXCEPT !.pc = "returned", !.result = Len(w.documents),
            !.outcomes = Append(@, "ok"), !.batch = {}]

\* batch.commit() rejected with error e: the catch block.
CommitRejected(w, e) ==
  LET a == w.attempt + 1 IN
  IF RetriesExhausted(a, w.maxRetries)
  THEN [w EXCEPT !.pc = "thrown", !.attempt = a, !.error = e,
                 !.outcomes = Append(@, "err"), !.batch = {}]
  ELSE [w EXCEPT !.pc = "backoff", !.attempt = a,
                 !.outcomes = Append(@, "err"), !.batch = {},
                 !.waits = Append(@, BackoffDelay(a))]

\* writeBatchWithRetry(documents, batchNumber, maxRetries) up to its first
\* await.
WriteBatchWithRetry(documents, batchNumber, maxRetries) ==
  LoopHead(NewCall(documents, batchNumber, maxRetries))

\* ------------------------------------------------------- MonitoringService
\* Promise.all([getFirestoreCount(..), getBigQueryCount()]) inside a call c
\* (createReport or finalizeReport): fs and bq are the two fetches
\* ("pending", "ok", "err"), all the combined promise ("pending",
\* "resolved", "rejected"); which \in {"fs", "bq"} settles with value val
\* (ok) or with error e. The combined promise rejects with the first
\* rejection and resolves when both have resolved; a fetch that settles
\* after the rejection is ignored.
SettleCount(c, which, ok, val, e) ==
  LET other == IF which = "fs" THEN c.bq ELSE c.fs
      c1 == IF which = "fs"
            THEN [c EXCEPT !.fs = IF ok THEN "ok" ELSE "err",
                           !.fsVal = IF ok THEN val ELSE @]
            ELSE [c EXCEPT !.bq = IF ok THEN "ok" ELSE "err",
                           !.bqVal = IF ok THEN val ELSE @]
  IN  IF c.all # "pending" THEN c1
      ELSE IF ~ok THEN [c1 EXCEPT !.all = "rejected", !.error = e]
      ELSE IF other = "ok" THEN [c1 EXCEPT !.all = "resolved"]
      ELSE c1

\* getFirestoreCount(collectionPath): collection(path).count().get()
FirestoreCount == Cardinality(collection)

\* getBigQueryCount(): SELECT COUNT(*) of the configured table, whose
\* content is outside the program.
BigQueryCounts == 0..MaxBigQueryCount

IdleCall ==
  [pc |-> "idle", reportId |-> 0, fs |-> "none", bq |-> "none",
   fsVal |-> -1, bqVal |-> -1, fsCalls |-> 0, bqCalls |-> 0,
   all |-> "none", error |-> NoError, writeTime |-> -1,
   stores |-> <<>>, caught |-> NoError]

\* createReport(collectionPath) up to `await Promise.all(...)`: both count
\* fetches are started. id is the identifier reportRef will get from
\* collection("monitoring").doc().
CreateReport(id) ==
  [IdleCall EXCEPT !.pc = "counts", !.reportId = id, !.fs = "pending",
                   !.bq = "pending", !.fsCalls = 1, !.bqCalls = 1,
                   !.all = "pending", !.writeTime = now]

\* The document createReport hands to reportRef.set().
PendingReport(c) ==
  [writeTime |-> c.writeTime, before_firestore |-> c.fsVal,
   before_bigquery |-> c.bqVal, status |-> "pending",
   after_firestore |-> -1, after_bigquery |-> -1, completedAt |-> -1,
   error |-> NoJSON]

\* Variant: the report is written once the fetches settled, whether or not
\* one of them rejected (Promise.allSettled in place of Promise.all).
CreateReportAfterCountsSettled(before, c) ==
  IF before.all # "pending" THEN c
  ELSE IF c.all \in {"resolved", "rejected"}
       THEN [c EXCEPT !.pc = "set", !.stores = Append(@, PendingReport(c))]
  ELSE c

\* createReport after one count fetch settled (c is SettleCount's result,
\* before the call state before it): continue to reportRef.set() when the
\* combined promise resolved, rethrow from the catch block when it rejected.
CreateReportAfterCounts(before, c) ==
  IF before.all # "pending" THEN c
  ELSE IF c.all = "resolved"
       THEN [c EXCEPT !.pc = "set", !.stores = Append(@, PendingReport(c))]
  ELSE IF c.all = "rejected" THEN [c EXCEPT !.pc = "thrown"]
  ELSE c

\* finalizeReport(reportId, collectionPath) up to `await Promise.all(...)`.
FinalizeReport(id) ==
  [IdleCall EXCEPT !.pc = "counts", !.reportId = id, !.fs = "pending",
                   !.bq = "pending", !.fsCalls = 1, !.bqCalls = 1,
                   !.all = "pending"]

\* Variant: the two after-counts are stored under each other's name.
CompletedUpdateSwapped(c) ==
  [after_firestore |-> c.bqVal, after_bigquery |-> c.fsVal,
   status |-> "completed", completedAt |-> now, error |-> NoJSON]

\* The fields finalizeReport's try block hands to update().
CompletedUpdate(c) ==
  [after_firestore |-> c.fsVal, after_bigquery |-> c.bqVal,
   status |-> "completed", completedAt |-> now, error |-> NoJSON]

\* The fields finalizeReport's catch block hands to update().
FailedUpdate(e) ==
  [after_firestore |-> -1, after_bigquery |-> -1,
   status |-> "failed", completedAt |-> now, error |-> JSONStringify(e)]

\* Variant: the catch block rethrows without marking the report.
FinalizeCatchNoUpdate(c, e) ==
  [c EXCEPT !.pc = "thrown", !.caught = e, !.error = e]

\* The catch block of finalizeReport entered with error e, up to
\* `await ...update(...)`.
FinalizeCatch(c, e) ==
  [c EXCEPT !.pc = "updateFailed", !.caught = e,
            !.stores = Append(@, FailedUpdate(e))]

\* Variant: the report is updated as soon as one fetch has resolved
\* (Promise.race in place of Promise.all).
FinalizeReportAfterCountsFirst(before, c) ==
  IF before.all # "pending" THEN c
  ELSE IF c.all = "rejected" THEN FinalizeCatch(c, c.error)
  ELSE [c EXCEPT !.pc = "updateCompleted", !.all = "resolved",
                 !.stores = Append(@, CompletedUpdate(c))]

\* finalizeReport after one count fetch settled.
FinalizeReportAfterCounts(before, c) ==
  IF before.all # "pending" THEN c
  ELSE IF c.all = "resolved"
       THEN [c EXCEPT !.pc = "updateCompleted",
                      !.stores = Append(@, CompletedUpdate(c))]
  ELSE IF c.all = "rejected" THEN FinalizeCatch(c, c.error)
  ELSE c

\* DocumentReference.update(fields) applied to report r: the named fields
\* are overwritten, the others kept; a field the update does not name
\* (-1 / NoJSON in the update record) is left as it is.
ApplyUpdate(r, u) ==
  [r EXCEPT !.status = u.status, !.completedAt = u.completedAt,
            !.after_firestore = IF u.status = "completed" THEN u.after_firestore ELSE @,
            !.after_bigquery = IF u.status = "completed" THEN u.after_bigquery ELSE @,
            !.error = IF u.status = "failed" THEN u.error ELSE @]

\* Variant: the failure branch also runs after a successful "completed"
\* update (the update sits in a finally-like position).
FinalizeReportAfterUpdateAlwaysFails(c, ok, e) ==
  IF c.pc = "updateCompleted" THEN FinalizeCatch(c, e)
  ELSE IF ok THEN [c EXCEPT !.pc = "thrown", !.error = c.caught]
       ELSE [c EXCEPT !.pc = "thrown", !.error = e]

\* finalizeReport after its update() call settled: ok, or rejected with e.
\* A rejected update inside the try block lands in the catch block, which
\* issues the "failed" update; the catch block rethrows the error it caught
\* once its own update resolved, and fails with e when that update rejects.
FinalizeReportAfterUpdate(c, ok, e) ==
  IF c.pc = "updateCompleted"
  THEN IF ok THEN [c EXCEPT !.pc = "returned"] ELSE FinalizeCatch(c, e)
  ELSE IF ok THEN [c EXCEPT !.pc = "thrown", !.error = c.caught]
       ELSE [c EXCEPT !.pc = "thrown", !.error = e]

\* ------------------------------------------------------ bulkWriteDocuments
\* createCalls and finalizeCalls count the handler's calls of createReport
\* and finalizeReport, dispatched lists the batch numbers it handed to
\* writeBatchWithRetry.
IdleHandler ==
  [pc |-> "idle", reportId |-> 0, totalWritten |-> 0, numberOfBatches |-> -1,
   error |-> NoError, documentsWritten |-> -1, errorLogged |-> FALSE,
   createCalls |-> 0, finalizeCalls |-> 0, dispatched |-> <<>>]

\* Math.ceil(CONFIG.write.totalDocuments / CONFIG.write.batchSize)
NumberOfBatches(total, batchSize) == (total + batchSize - 1) \div batchSize

\* Variant: the last batch is sized as the remainder of the division.
DocsInThisBatchRemainder(i, n, total, batchSize) ==
  IF i = n - 1 THEN total % batchSize ELSE batchSize

\* docsInThisBatch for batch i of n
DocsInThisBatch(i, n, total, batchSize) ==
  IF i = n - 1 THEN total - i * batchSize ELSE batchSize

\* The for loop of the handler: every batch is generated and handed to
\* writeBatchWithRetry, which runs up to its first await.
DispatchBatches(n) ==
  [i \in 0..(n - 1) |->
     WriteBatchWithRetry(
       GenerateDocuments(DocsInThisBatch(i, n, config.totalDocuments,
                                         config.batchSize)),
       i, DefaultMaxRetries)]

\* Variant: the reduction keeps the last result only.
SumResultsLast(ws, n) == IF n = 0 THEN 0 ELSE ws[n - 1].result

\* results.reduce((acc, curr) => acc + curr, 0) over the n batch results
RECURSIVE SumResults(_, _)
SumResults(ws, n) == IF n = 0 THEN 0 ELSE ws[n - 1].result + SumResults(ws, n - 1)

\* Variant: the handler goes on as soon as one call has returned
\* (Promise.any in place of Promise.all).
AllReturnedAny(ws) == \E i \in DOMAIN ws : ws[i].pc = "returned"

\* Promise.all(batches) resolves once every dispatched call has returned.
AllReturned(ws) == \A i \in DOMAIN ws : ws[i].pc = "returned"

\* Variant: the catch block logs the error and does not rethrow it.
HandlerCatchSwallow(h, e) == [h EXCEPT !.pc = "done", !.errorLogged = TRUE]

\* catch (error) { logger.error(...); throw error; }
HandlerCatch(h, e) == [h EXCEPT !.pc = "failed", !.error = e, !.errorLogged = TRUE]

\* The handler after `await Promise.all(batches)` resolved, up to the await
\* on finalizeReport.
HandlerAfterBatches(h, ws) ==
  [h EXCEPT !.pc = "finalizeReport",
            !.totalWritten = SumResults(ws, h.numberOfBatches),
            !.finalizeCalls = @ + 1]

\* logger.info("Bulk write completed", {documentsWritten: totalWritten, ..})
HandlerCompleted(h) == [h EXCEPT !.pc = "done", !.documentsWritten = h.totalWritten]

\* The scheduler invokes the handler: it runs up to `await createReport`.
BulkWriteTrigger ==
  /\ handler.pc = "idle"
  /\ handler' = [handler EXCEPT !.pc = "createReport", !.createCalls = @ + 1]
  /\ cr' = CreateReport(1)
  /\ UNCHANGED <<testRunId, now, config, collection, monitoring, writers, fin, cleanup>>

\* A count fetch of createReport resolves.
CrCountResolved(which) ==
  /\ cr.pc \in {"counts", "thrown"}
  /\ cr[which] = "pending"
  /\ \E v \in (IF which = "fs" THEN {FirestoreCount} ELSE BigQueryCounts) :
       cr' = CreateReportAfterCounts(cr, SettleCount(cr, which, TRUE, v, NoError))
  /\ UNCHANGED <<testRunId, now, config, collection, monitoring, writers, handler, fin, cleanup>>

\* A count fetch of createReport rejects.
CrCountRejected(which) ==
  /\ cr.pc \in {"counts", "thrown"}
  /\ cr[which] = "pending"
  /\ LET c == CreateReportAfterCounts(cr,
                SettleCount(cr, which, FALSE, -1, StoreError(which, cr.reportId, 1)))
     IN  /\ cr' = c
         /\ handler' = IF cr.pc = "counts" THEN HandlerCatch(handler, c.error)
                       ELSE handler
  /\ UNCHANGED <<testRunId, now, config, collection, monitoring, writers, fin, cleanup>>

\* reportRef.set() resolves: createReport returns reportRef.id and the
\* handler dispatches every batch, then awaits them all (and goes straight
\* on to finalizeReport when there is no batch to await).
CrSetResolved ==
  /\ cr.pc = "set"
  /\ monitoring' = monitoring @@ (cr.reportId :> cr.stores[Len(cr.stores)])
  /\ cr' = [cr EXCEPT !.pc = "returned"]
  /\ LET n  == NumberOfBatches(config.totalDocuments, config.batchSize)
         ws == DispatchBatches(n)
         h  == [handler EXCEPT !.pc = "awaitBatches", !.reportId = cr.reportId,
                               !.numberOfBatches = n,
                               !.dispatched = [k \in 1..n |-> k - 1]]
     IN  /\ writers' = ws
         /\ IF AllReturned(ws)
            THEN /\ handler' = HandlerAfterBatches(h, ws)
                 /\ fin' = FinalizeReport(h.reportId)
            ELSE /\ handler' = h
                 /\ fin' = fin
  /\ UNCHANGED <<testRunId, now, config, collection, cleanup>>

\* reportRef.set() rejects: createReport rethrows and so does the handler.
CrSetRejected ==
  /\ cr.pc = "set"
  /\ LET e == StoreError("set", cr.reportId, 1) IN
       /\ cr' = [cr EXCEPT !.pc = "thrown", !.error = e]
       /\ handler' = HandlerCatch(handler, e)
  /\ UNCHANGED <<testRunId, now, config, collection, monitoring, writers, fin, cleanup>>

\* batch.commit() of call i resolves: the batch is applied as a whole and
\* the call returns; when it was the last call the handler was awaiting,
\* the handler sums the results and calls finalizeReport.
WriterCommitResolved(i) ==
  /\ writers[i].pc = "commit"
  /\ collection' = collection \cup writers[i].batch
  /\ LET ws == [writers EXCEPT ![i] = CommitResolved(@)] IN
       /\ writers' = ws
       /\ IF handler.pc = "awaitBatches" /\ AllReturned(ws)
          THEN /\ handler' = HandlerAfterBatches(handler, ws)
               /\ fin' = FinalizeReport(handler.reportId)
          ELSE UNCHANGED <<handler, fin>>
  /\ UNCHANGED <<testRunId, now, config, monitoring, cr, cleanup>>

\* batch.commit() of call i rejects: nothing is applied; the call backs off
\* or throws, and a throw rejects the Promise.all the handler awaits.
WriterCommitRejected(i) ==
  /\ writers[i].pc = "commit"
  /\ LET w == CommitRejected(writers[i],
                             StoreError("commit", i, writers[i].commits))
     IN  /\ writers' = [writers EXCEPT ![i] = w]
         /\ handler' = IF w.pc = "thrown" /\ handler.pc = "awaitBatches"
                       THEN HandlerCatch(handler, w.error)
                       ELSE handler
  /\ UNCHANGED <<testRunId, now, config, collection, monitoring, cr, fin, cleanup>>

\* The backoff timer of call i fires: next turn of the while loop.
WriterBackoffElapsed(i) ==
  /\ writers[i].pc = "backoff"
  /\ writers' = [writers EXCEPT ![i] = LoopHead(@)]
  /\ UNCHANGED <<testRunId, now, config, collection, monitoring, handler, cr, fin, cleanup>>

\* A count fetch of finalizeReport resolves.
FinCountResolved(which) ==
  /\ fin.pc # "idle"
  /\ fin[which] = "pending"
  /\ \E v \in (IF which = "fs" THEN {FirestoreCount} ELSE BigQueryCounts) :
       fin' = FinalizeReportAfterCounts(fin, SettleCount(fin, which, TRUE, v, NoError))
  /\ UNCHANGED <<testRunId, now, config, collection, monitoring, writers, handler, cr, cleanup>>

\* A count fetch of finalizeReport rejects.
FinCountRejected(which) ==
  /\ fin.pc # "idle"
  /\ fin[which] = "pending"
  /\ fin' = FinalizeReportAfterCounts(fin,
              SettleCount(fin, which, FALSE, -1, StoreError(which, fin.reportId, 1)))
  /\ UNCHANGED <<testRunId, now, config, collection, monitoring, writers, handler, cr, cleanup>>

\* The handler once finalizeReport settled as c.
HandlerAfterFinalize(h, c) ==
  IF c.pc = "returned" THEN HandlerCompleted(h)
  ELSE IF c.pc = "thrown" THEN HandlerCatch(h, c.error)
  ELSE h

\* update() of finalizeReport resolves: the fields are written to the
\* report.
FinUpdateResolved ==
  /\ fin.pc \in {"updateCompleted", "updateFailed"}
  /\ fin.reportId \in DOMAIN monitoring
  /\ monitoring' = [monitoring EXCEPT
                      ![fin.reportId] = ApplyUpdate(@, fin.stores[Len(fin.stores)])]
  /\ LET c == FinalizeReportAfterUpdate(fin, TRUE, NoError) IN
       /\ fin' = c
       /\ handler' = HandlerAfterFinalize(handler, c)
  /\ UNCHANGED <<testRunId, now, config, collection, writers, cr, cleanup>>

\* update() of finalizeReport rejects: nothing is written.
FinUpdateRejected ==
  /\ fin.pc \in {"updateCompleted", "updateFailed"}
  /\ LET c == FinalizeReportAfterUpdate(fin, FALSE,
                StoreError("update", fin.reportId, Len(fin.stores)))
     IN  /\ fin' = c
         /\ handler' = HandlerAfterFinalize(handler, c)
  /\ UNCHANGED <<testRunId, now, config, collection, monitoring, writers, cr, cleanup>>

\* invocation numbers the invocations of the handler by the scheduler and
\* deletedEarlier counts what the earlier invocations deleted.
IdleCleanup ==
  [pc |-> "idle", threshold |-> -1, totalDeleted |-> 0, snapshot |-> {},
   pages |-> <<>>, queries |-> 0, commits |-> 0, deletedCount |-> -1,
   error |-> NoError, invocation |-> 0, deletedEarlier |-> 0]

\* ----------------------------------------------------- cleanupOldDocuments
\* Timestamp.fromDate(new Date(Date.now() - cleanupThresholdHours * 60 * 60
\* * 1000)), in hours.
Threshold == now - CleanupThresholdHours

\* .where("timestamp", "<", threshold)
Matching(threshold) == { d \in collection : d.doc.timestamp < threshold }

Min(a, b) == IF a < b THEN a ELSE b

\* Variant: the query pages by offset, skipping as many matching documents
\* (in id order) as the run has deleted so far.
PagesByOffset(threshold) ==
  LET m == Matching(threshold)
      rank(d) == Cardinality({ e \in m : e.id[3] < d.id[3] })
  IN  { { d \in m : /\ rank(d) >= cleanup.totalDeleted
                    /\ rank(d) < cleanup.totalDeleted + PageLimit } }

\* The pages .limit(PageLimit).get() may return: any PageLimit matching
\* documents, or all of them when there are fewer (the query has no order).
Pages(threshold) ==
  LET m == Matching(threshold) IN
  { p \in SUBSET m : Cardinality(p) = Min(PageLimit, Cardinality(m)) }

\* Variant: a full page also ends the loop (size <= limit).
ShortPageInclusive(size) == size <= PageLimit

\* if (snapshot.size < 500) break
ShortPage(size) == size < PageLimit

\* logger.info("Cleanup completed", { deletedCount: totalDeleted, .. })
CleanupCompleted(c) == [c EXCEPT !.pc = "done", !.deletedCount = c.totalDeleted]

\* Variant: the threshold is computed anew for every page query.
CleanupQueryRecompute(c) ==
  [c EXCEPT !.pc = "query", !.queries = @ + 1, !.threshold = Threshold]

\* One more turn of the while loop up to `await ...get()`.
CleanupQuery(c) == [c EXCEPT !.pc = "query", !.queries = @ + 1]

\* The loop body after the query returned page: leave the loop on an empty
\* snapshot, else put every document in a delete batch and commit it.
CleanupAfterQuery(c, page) ==
  LET c1 == [c EXCEPT !.snapshot = page, !.pages = Append(@, Cardinality(page))]
  IN  IF page = {} THEN CleanupCompleted(c1)
      ELSE [c1 EXCEPT !.pc = "commit", !.commits = @ + 1]

\* Variant: no short-page break, the loop always queries again.
CleanupAfterCommitNoBreak(c) ==
  CleanupQuery([c EXCEPT !.totalDeleted = @ + Cardinality(c.snapshot)])

\* Variant: the page size is assigned to the total instead of added to it.
CleanupAfterCommitAssign(c) ==
  LET c1 == [c EXCEPT !.totalDeleted = Cardinality(c.snapshot)]
  IN  IF ShortPage(Cardinality(c.snapshot)) THEN CleanupCompleted(c1)
      ELSE CleanupQuery(c1)

\* The loop body after batch.commit() resolved.
CleanupAfterCommit(c) ==
  LET c1 == [c EXCEPT !.totalDeleted = @ + Cardinality(c.snapshot)]
  IN  IF ShortPage(Cardinality(c.snapshot)) THEN CleanupCompleted(c1)
      ELSE CleanupQuery(c1)

\* Variant: the catch block records the error and the loop goes on.
CleanupCatchContinue(c, e) == CleanupQuery([c EXCEPT !.error = e])

\* catch (error) { logger.error("Error in cleanup", ..); throw error; }
CleanupCatch(c, e) == [c EXCEPT !.pc = "failed", !.error = e]

\* The scheduler invokes the handler: the threshold is computed and the
\* first query issued.
CleanupTrigger ==
  /\ cleanup.pc = "idle"
  /\ cleanup' = CleanupQuery([cleanup EXCEPT !.threshold = Threshold,
                                             !.invocation = @ + 1])
  /\ UNCHANGED <<testRunId, now, config, collection, monitoring, writers, handler, cr, fin>>

\* The page query resolves with one of the pages the store may return.
CleanupQueryResolved ==
  /\ cleanup.pc = "query"
  /\ \E page \in Pages(cleanup.threshold) :
       cleanup' = CleanupAfterQuery(cleanup, page)
  /\ UNCHANGED <<testRunId, now, config, collection, monitoring, writers, handler, cr, fin>>

\* The page query rejects.
CleanupQueryRejected ==
  /\ cleanup.pc = "query"
  /\ cleanup' = CleanupCatch(cleanup, StoreError("query", 0, cleanup.queries))
  /\ UNCHANGED <<testRunId, now, config, collection, monitoring, writers, handler, cr, fin>>

\* The delete batch resolves: every document of the page is deleted.
CleanupCommitResolved ==
  /\ cleanup.pc = "commit"
  /\ collection' = collection \ cleanup.snapshot
  /\ cleanup' = CleanupAfterCommit(cleanup)
  /\ UNCHANGED <<testRunId, now, config, monitoring, writers, handler, cr, fin>>

\* The delete batch rejects: nothing is deleted.
CleanupCommitRejected ==
  /\ cleanup.pc = "commit"
  /\ cleanup' = CleanupCatch(cleanup, StoreError("delete", 0, cleanup.commits))
  /\ UNCHANGED <<testRunId, now, config, collection, monitoring, writers, handler, cr, fin>>

\* ---------------------------------------------------------- specifications
\* One invocation of bulkWriteDocuments against a store that may fail any
\* call, for every small CONFIG.write.
Init ==
  /\ testRunId \in RunIds
  /\ now = StartTime
  /\ config \in [totalDocuments : 0..MaxTotalDocuments, batchSize : 1..MaxBatchSize]
  /\ collection = {}
  /\ monitoring = <<>>
  /\ writers = <<>>
  /\ handler = IdleHandler
  /\ cr = IdleCall
  /\ fin = IdleCall
  /\ cleanup = IdleCleanup

Next ==
  \/ BulkWriteTrigger
  \/ \E which \in {"fs", "bq"} : CrCountResolved(which)
  \/ \E which \in {"fs", "bq"} : CrCountRejected(which)
  \/ CrSetResolved
  \/ CrSetRejected
  \/ \E i \in DOMAIN writers : WriterCommitResolved(i)
  \/ \E i \in DOMAIN writers : WriterCommitRejected(i)
  \/ \E i \in DOMAIN writers : WriterBackoffElapsed(i)
  \/ \E which \in {"fs", "bq"} : FinCountResolved(which)
  \/ \E which \in {"fs", "bq"} : FinCountRejected(which)
  \/ FinUpdateResolved
  \/ FinUpdateRejected
  \/ Tick

Spec == Init /\ [][Next]_vars

\* A direct call writeBatchWithRetry(documents, batchNumber, maxRetries), as
\* the unit tests make it, for every small argument.
DirectWrite ==
  /\ writers = <<>>
  /\ \E n \in 0..MaxDocs, i \in 0..MaxBatchNumber, m \in (-1)..MaxRetriesArg :
       writers' = (i :> WriteBatchWithRetry(GenerateDocuments(n), i, m))
  /\ UNCHANGED <<testRunId, now, config, collection, monitoring, handler, cr, fin, cleanup>>

InitWriter ==
  /\ testRunId \in RunIds
  /\ now = StartTime
  /\ config = [totalDocuments |-> 0, batchSize |-> 1]
  /\ collection = {}
  /\ monitoring = <<>>
  /\ writers = <<>>
  /\ handler = IdleHandler
  /\ cr = IdleCall
  /\ fin = IdleCall
  /\ cleanup = IdleCleanup

NextWriter ==
  \/ DirectWrite
  \/ \E i \in DOMAIN writers : WriterCommitResolved(i)
  \/ \E i \in DOMAIN writers : WriterCommitRejected(i)
  \/ \E i \in DOMAIN writers : WriterBackoffElapsed(i)

SpecWriter == InitWriter /\ [][NextWriter]_vars

\* Document number k already in the collection, with timestamp ts.
StoredDoc(k, ts) ==
  [id |-> <<-1, 0, k>>,
   doc |-> [timestamp |-> ts, metadata |-> [createdAt |-> ts, testRunId |-> "run-0"]]]

\* One invocation of cleanupOldDocuments on a collection that holds nOld
\* documents older than the threshold and nFresh that are not (the first of
\* them exactly at the threshold).
InitCleanup ==
  /\ testRunId \in RunIds
  /\ now = StartTime
  /\ config = [totalDocuments |-> 0, batchSize |-> 1]
  /\ \E nOld \in 0..MaxOldDocs, nFresh \in 0..MaxFreshDocs :
       collection = { StoredDoc(k, Threshold - 1) : k \in 1..nOld }
                    \cup { StoredDoc(MaxOldDocs + k, Threshold + k - 1) : k \in 1..nFresh }
  /\ monitoring = <<>>
  /\ writers = <<>>
  /\ handler = IdleHandler
  /\ cr = IdleCall
  /\ fin = IdleCall
  /\ cleanup = IdleCleanup

NextCleanup ==
  \/ CleanupTrigger
  \/ CleanupQueryResolved
  \/ CleanupQueryRejected
  \/ CleanupCommitResolved
  \/ CleanupCommitRejected
  \/ Tick

SpecCleanup == InitCleanup /\ [][NextCleanup]_vars

\* A bulk write hands a batch of one freshly generated document to
\* writeBatchWithRetry while the cleanup may be running.
ConcurrentWrite ==
  /\ writers = <<>>
  /\ writers' = (0 :> WriteBatchWithRetry(GenerateDocuments(1), 0, DefaultMaxRetries))
  /\ UNCHANGED <<testRunId, now, config, collection, monitoring, handler, cr, fin, cleanup>>

\* One invocation of cleanupOldDocuments interleaved with a batch write.
NextCleanupWrites ==
  \/ CleanupTrigger
  \/ CleanupQueryResolved
  \/ CleanupQueryRejected
  \/ CleanupCommitResolved
  \/ CleanupCommitRejected
  \/ ConcurrentWrite
  \/ \E i \in DOMAIN writers : WriterCommitResolved(i)
  \/ \E i \in DOMAIN writers : WriterCommitRejected(i)
  \/ \E i \in DOMAIN writers : WriterBackoffElapsed(i)
  \/ Tick

SpecCleanupWrites == InitCleanup /\ [][NextCleanupWrites]_vars

\* The scheduler invokes the handler again after a failed invocation: a new
\* invocation starts from fresh locals and a threshold from the current clock.
CleanupReinvoke ==
  /\ cleanup.pc = "failed"
  /\ cleanup.invocation <= RetryCount
  /\ cleanup' = CleanupQuery([IdleCleanup EXCEPT
                    !.threshold = Threshold,
                    !.invocation = cleanup.invocation + 1,
                    !.deletedEarlier = cleanup.deletedEarlier + cleanup.totalDeleted])
  /\ UNCHANGED <<testRunId, now, config, collection, monitoring, writers, handler, cr, fin>>

\* cleanupOldDocuments with the scheduler's retries of failed invocations.
NextCleanupRetry ==
  \/ CleanupTrigger
  \/ CleanupQueryResolved
  \/ CleanupQueryRejected
  \/ CleanupCommitResolved
  \/ CleanupCommitRejected
  \/ CleanupReinvoke
  \/ Tick

SpecCleanupRetry == InitCleanup /\ [][NextCleanupRetry]_vars

\* The process generates one more document and hands it, as batch i, to
\* writeBatchWithRetry, while earlier batches (of the same or of an earlier
\* run of the process) may still be in flight.
GenerateBatch ==
  /\ \E i \in (0..MaxBatchNumber) \ DOMAIN writers :
       writers' = [j \in DOMAIN writers \cup {i} |->
                     IF j = i
                     THEN WriteBatchWithRetry(GenerateDocuments(1), i, DefaultMaxRetries)
                     ELSE writers[j]]
  /\ UNCHANGED <<testRunId, now, config, collection, monitoring, handler, cr, fin, cleanup>>

\* A process whose static run identifier is any of RunIds and which generates
\* and writes documents at different moments of its life.
NextGenerate ==
  \/ GenerateBatch
  \/ \E i \in DOMAIN writers : WriterCommitResolved(i)
  \/ \E i \in DOMAIN writers : WriterCommitRejected(i)
  \/ \E i \in DOMAIN writers : WriterBackoffElapsed(i)
  \/ Tick

SpecGenerate == InitWriter /\ [][NextGenerate]_vars

\* One invocation of cleanupOldDocuments against a store that fails no call:
\* every query and every delete commit that is awaited settles.
NextCleanupOk ==
  \/ CleanupTrigger
  \/ CleanupQueryResolved
  \/ CleanupCommitResolved
  \/ Tick

SpecCleanupOk ==
  /\ InitCleanup
  /\ [][NextCleanupOk]_vars
  /\ WF_vars(CleanupQueryResolved)
  /\ WF_vars(CleanupCommitResolved)

\* batch.commit() of call i rejects although the store has applied some or all
\* of the batch's operations: the call sees the same rejection as above.
WriterCommitRejectedApplied(i) ==
  /\ writers[i].pc = "commit"
  /\ \E applied \in (SUBSET writers[i].batch) \ {{}} :
       collection' = collection \cup applied
  /\ LET w == CommitRejected(writers[i],
                             StoreError("commit", i, writers[i].commits))
     IN  /\ writers' = [writers EXCEPT ![i] = w]
         /\ handler' = IF w.pc = "thrown" /\ handler.pc = "awaitBatches"
                       THEN HandlerCatch(handler, w.error)
                       ELSE handler
  /\ UNCHANGED <<testRunId, now, config, monitoring, cr, fin, cleanup>>

\* A direct call of writeBatchWithRetry against a store whose commit is not
\* all-or-nothing.
NextWriterPartial ==
  \/ DirectWrite
  \/ \E i \in DOMAIN writers : WriterCommitResolved(i)
  \/ \E i \in DOMAIN writers : WriterCommitRejected(i)
  \/ \E i \in DOMAIN writers : WriterCommitRejectedApplied(i)
  \/ \E i \in DOMAIN writers : WriterBackoffElapsed(i)

SpecWriterPartial == InitWriter /\ [][NextWriterPartial]_vars

\* ------------------------------------------------------------------ claims
IsErrs(s) == \A j \in 1..Len(s) : s[j] = "err"

Front(s) == SubSeq(s, 1, Len(s) - 1)

\* C1: for maxRetries N >= 1 and k < N, a call whose commit failed k times
\* and then succeeded has returned len(documents) after exactly k + 1 commit
\* attempts; while fewer than N attempts have failed the call has not given
\* up.
C1_RetryThenSucceed ==
  \A i \in DOMAIN writers :
    LET w == writers[i]
        n == Len(w.outcomes)
    IN  w.maxRetries >= 1 =>
          /\ (IsErrs(w.outcomes) /\ n < w.maxRetries) => w.pc \in {"commit", "backoff"}
          /\ (n >= 1 /\ w.outcomes[n] = "ok" /\ IsErrs(Front(w.outcomes))
                /\ n - 1 < w.maxRetries) =>
               /\ w.pc = "returned"
               /\ w.result = Len(w.documents)
               /\ w.commits = n

\* A call with maxRetries = 3 and a non-empty batch that failed twice and
\* then succeeded.
C1_Witness ==
  \E i \in DOMAIN writers :
    /\ writers[i].maxRetries = 3
    /\ writers[i].outcomes = <<"err", "err", "ok">>
    /\ Len(writers[i].documents) >= 1
    /\ writers[i].pc = "returned"

\* C2: for maxRetries N >= 1, a call all of whose commits fail makes exactly
\* N commit attempts and then throws the error of the N-th attempt itself,
\* returning nothing.
C2_ExhaustedRethrows ==
  \A i \in DOMAIN writers :
    LET w == writers[i] IN
    w.maxRetries >= 1 =>
      /\ (IsErrs(w.outcomes) /\ Len(w.outcomes) >= w.maxRetries) =>
           /\ w.pc = "thrown"
           /\ w.commits = w.maxRetries
           /\ Len(w.outcomes) = w.maxRetries
           /\ w.error = StoreError("commit", w.batchNumber, w.maxRetries)
           /\ w.result = -1
      /\ w.pc = "thrown" => IsErrs(w.outcomes)

\* A call with maxRetries = 2 that threw after its second failed commit.
C2_Witness ==
  \E i \in DOMAIN writers :
    /\ writers[i].maxRetries = 2
    /\ writers[i].pc = "thrown"
    /\ writers[i].commits = 2
    /\ Len(writers[i].documents) >= 1

\* C3: writeBatchWithRetry([], i) with the default maxRetries makes no commit
\* call and returns 0.
C3_EmptyBatchNoCommit ==
  \A i \in DOMAIN writers :
    (Len(writers[i].documents) = 0 /\ writers[i].maxRetries = DefaultMaxRetries) =>
      /\ writers[i].commits = 0
      /\ writers[i].pc = "returned"
      /\ writers[i].result = 0

\* C4: the cleanup loop issues a further query exactly after a full page
\* that was deleted successfully; an empty page ends the loop without a
\* commit, a short page is deleted in one commit and ends the loop, and the
\* reported deletedCount is the sum of the deleted pages' sizes.
C4_CleanupPaging ==
  LET c == cleanup
      n == Len(c.pages)
  IN  /\ \A j \in 1..(n - 1) : c.pages[j] = PageLimit
      /\ c.pc = "query" =>
           /\ c.queries = n + 1
           /\ c.commits = n
           /\ n >= 1 => c.pages[n] = PageLimit
      /\ c.pc = "commit" =>
           /\ c.queries = n
           /\ c.commits = n
           /\ c.pages[n] > 0
      /\ c.pc = "done" =>
           /\ n >= 1
           /\ c.queries = n
           /\ c.pages[n] < PageLimit
           /\ c.commits = (IF c.pages[n] = 0 THEN n - 1 ELSE n)
           /\ c.deletedCount = SumSeq(c.pages)

\* A run that queried again after each of two full pages and ended, without
\* a third commit, on the empty third page.
C4_Witness ==
  /\ cleanup.pc = "done"
  /\ Len(cleanup.pages) = 3
  /\ cleanup.pages[3] = 0

\* C5 (as amended): when the store answers the first query with a full page
\* and the second with a short non-empty page, the run reports the sum of
\* the two after exactly 2 delete commits and exactly 2 queries: the third
\* query, which would come back empty, is never made.
C5_FullThenShortPage ==
  LET c == cleanup IN
  (/\ c.pc = "done"
   /\ Len(c.pages) >= 2
   /\ c.pages[1] = PageLimit
   /\ c.pages[2] \in 1..(PageLimit - 1)) =>
     /\ Len(c.pages) = 2
     /\ c.deletedCount = PageLimit + c.pages[2]
     /\ c.commits = 2
     /\ c.queries = 2
     /\ Matching(c.threshold) = {}

C5_Witness ==
  /\ cleanup.pc = "done"
  /\ Len(cleanup.pages) = 2
  /\ cleanup.pages[1] = PageLimit
  /\ cleanup.pages[2] \in 1..(PageLimit - 1)

\* C5 as claimed: full page, short page, then nothing left: total is the sum
\* after exactly 2 delete commits and exactly 3 queries.
C5_ThreeQueries ==
  LET c == cleanup IN
  (/\ c.pc = "done"
   /\ Len(c.pages) >= 2
   /\ c.pages[1] = PageLimit
   /\ c.pages[2] \in 1..(PageLimit - 1)
   /\ Matching(c.threshold) = {}) =>
     /\ c.deletedCount = PageLimit + c.pages[2]
     /\ c.commits = 2
     /\ c.queries = 3

\* C6: createReport calls set() exactly once, with the two fetched counts
\* and status pending, when both fetches resolved, and returns the id of the
\* one report it persisted; when a fetch rejects, set() is never called, no
\* fetch is repeated and the first fetch error reaches the caller.
C6_CreateReport ==
  /\ cr.pc \in {"set", "returned"} =>
       /\ cr.fs = "ok" /\ cr.bq = "ok"
       /\ Len(cr.stores) = 1
       /\ cr.stores[1].before_firestore = cr.fsVal
       /\ cr.stores[1].before_bigquery = cr.bqVal
       /\ cr.stores[1].status = "pending"
  /\ cr.pc = "returned" =>
       /\ DOMAIN monitoring = {cr.reportId}
       /\ monitoring[cr.reportId].before_firestore = cr.fsVal
       /\ monitoring[cr.reportId].before_bigquery = cr.bqVal
       /\ monitoring[cr.reportId].writeTime = cr.writeTime
       /\ fin.pc = "idle" => monitoring[cr.reportId] = cr.stores[1]
       /\ handler.reportId = cr.reportId
  /\ (cr.fs = "err" \/ cr.bq = "err") =>
       /\ cr.stores = <<>>
       /\ monitoring = <<>>
       /\ cr.fsCalls = 1 /\ cr.bqCalls = 1
       /\ cr.pc = "thrown"
       /\ cr.error.src \in {"fs", "bq"}
       /\ cr[cr.error.src] = "err"
       /\ handler.pc = "failed" /\ handler.error = cr.error

\* A report persisted with two different before-counts.
C6_Witness ==
  /\ cr.pc = "returned"
  /\ cr.reportId \in DOMAIN monitoring
  /\ monitoring[cr.reportId].status = "pending"
  /\ monitoring[cr.reportId].before_firestore # monitoring[cr.reportId].before_bigquery

\* C7: when both count fetches of finalizeReport resolved and its update
\* resolved, the report is completed, carries the two fetched after-counts
\* and a completion instant, and finalizeReport returned without error.
C7_FinalizeCompleted ==
  /\ (fin.all = "resolved" /\ Len(fin.stores) = 1 /\ fin.pc # "updateCompleted") =>
       fin.pc = "returned"
  /\ fin.pc = "returned" =>
       LET r == monitoring[fin.reportId] IN
       /\ fin.fs = "ok" /\ fin.bq = "ok"
       /\ r.status = "completed"
       /\ r.after_firestore = fin.fsVal
       /\ r.after_bigquery = fin.bqVal
       /\ r.completedAt >= r.writeTime
       /\ r.error = NoJSON
       /\ fin.error = NoError
       /\ handler.pc = "done" /\ handler.error = NoError

\* A report completed after a run that wrote documents, with two different
\* after-counts.
C7_Witness ==
  /\ fin.pc = "returned"
  /\ monitoring[fin.reportId].status = "completed"
  /\ monitoring[fin.reportId].after_firestore > monitoring[fin.reportId].after_bigquery
  /\ monitoring[fin.reportId].after_firestore > monitoring[fin.reportId].before_firestore

\* C8: in every execution of finalizeReport in which a count fetch fails,
\* the report ends failed with the serialized error and a completion instant
\* and without after-counts, and the caller gets the original fetch error.
C8_FetchFailureRecorded ==
  (fin.pc \in {"returned", "thrown"} /\ fin.all = "rejected") =>
    LET r == monitoring[fin.reportId] IN
    /\ r.status = "failed"
    /\ r.error = JSONStringify(fin.caught)
    /\ r.completedAt # -1
    /\ r.after_firestore = -1 /\ r.after_bigquery = -1
    /\ fin.pc = "thrown"
    /\ fin.caught.src \in {"fs", "bq"}
    /\ fin.error = fin.caught

UpdateStatuses(c) == [j \in 1..Len(c.stores) |-> c.stores[j].status]

\* C9 as claimed: every invocation of finalizeReport makes exactly one
\* update call.
C9_ExactlyOneUpdate ==
  fin.pc \in {"returned", "thrown"} => Len(fin.stores) = 1

\* C9 (as amended): an invocation makes exactly one update call when a count
\* fetch failed (the failed update) or when the completed update resolved,
\* and exactly two, the completed update followed by the failed one, when the
\* completed update itself rejected; never more.
C9_OneOrTwoUpdates ==
  /\ fin.pc = "counts" => fin.stores = <<>>
  /\ fin.pc = "updateCompleted" => UpdateStatuses(fin) = <<"completed">>
  /\ fin.pc = "updateFailed" =>
       UpdateStatuses(fin) = (IF fin.all = "rejected" THEN <<"failed">>
                              ELSE <<"completed", "failed">>)
  /\ fin.pc = "returned" =>
       fin.all = "resolved" /\ UpdateStatuses(fin) = <<"completed">>
  /\ fin.pc = "thrown" =>
       \/ fin.all = "rejected" /\ UpdateStatuses(fin) = <<"failed">>
       \/ /\ fin.all = "resolved"
          /\ UpdateStatuses(fin) = <<"completed", "failed">>
          /\ fin.caught = StoreError("update", fin.reportId, 1)

\* An invocation that ended after issuing both updates.
C9_Witness ==
  /\ fin.pc = "thrown"
  /\ UpdateStatuses(fin) = <<"completed", "failed">>

\* C10: a report is created pending, and its status changes at most once,
\* from pending to completed or to failed; a completed or failed report
\* keeps its status.
C10_StatusMonotone ==
  [][\A id \in DOMAIN monitoring' :
       IF id \in DOMAIN monitoring
       THEN \/ monitoring'[id].status = monitoring[id].status
            \/ /\ monitoring[id].status = "pending"
               /\ monitoring'[id].status \in {"completed", "failed"}
       ELSE monitoring'[id].status = "pending"]_vars

\* A report that became failed after the completed update was rejected, with
\* finalizeReport over.
C10_Witness ==
  /\ fin.pc = "thrown"
  /\ Len(fin.stores) = 2
  /\ fin.reportId \in DOMAIN monitoring
  /\ monitoring[fin.reportId].status = "failed"


\* C11, in the case of a batch write that exhausted its retries: a bulk-write
\* run that failed after its report was created leaves that report in status
\* failed.
C11_FailedRunReportFailed ==
  (/\ handler.pc = "failed"
   /\ cr.pc = "returned"
   /\ \E i \in DOMAIN writers : writers[i].pc = "thrown") =>
    monitoring[handler.reportId].status = "failed"

\* C12: a batch commit is attempted only once createReport has returned the
\* report id, finalizeReport is invoked only once every dispatched batch
\* write has returned, and a failed createReport is followed by no batch
\* commit and no finalizeReport.
C12_ReportBracketsBatches ==
  /\ (\E i \in DOMAIN writers : writers[i].commits > 0) =>
       /\ cr.pc = "returned"
       /\ handler.reportId = cr.reportId
       /\ handler.reportId \in DOMAIN monitoring
  /\ fin.pc # "idle" =>
       /\ cr.pc = "returned"
       /\ fin.reportId = cr.reportId
       /\ DOMAIN writers = 0..(handler.numberOfBatches - 1)
       /\ \A i \in DOMAIN writers : writers[i].pc = "returned"
  /\ cr.pc = "thrown" =>
       /\ writers = <<>>
       /\ collection = {}
       /\ fin.pc = "idle"
       /\ handler.pc = "failed"

\* finalizeReport under way after two batches, one of which needed a retry.
C12_Witness ==
  /\ fin.pc = "counts"
  /\ DOMAIN writers = {0, 1}
  /\ writers[1].commits = 2

\* C13: whenever the bulk-write handler has returned or raised, no batch
\* write it dispatched is still awaiting a commit or sleeping in backoff.
C13_NoBatchInFlightAtEnd ==
  handler.pc \in {"done", "failed"} =>
    \A i \in DOMAIN writers : writers[i].pc \in {"returned", "thrown"}


\* C14: a failure of createReport, of a batch write or of finalizeReport makes
\* the handler raise the error of the failed call (of the first batch that
\* failed), and the handler retries nothing: it calls createReport and
\* finalizeReport at most once each and hands no batch number to
\* writeBatchWithRetry twice.
C14_FailureRaisedNoRetry ==
  /\ handler.createCalls <= 1
  /\ handler.finalizeCalls <= 1
  /\ \A j, k \in 1..Len(handler.dispatched) :
       handler.dispatched[j] = handler.dispatched[k] => j = k
  /\ \A i \in DOMAIN writers : writers[i].attempt <= DefaultMaxRetries
  /\ cr.pc = "thrown" => handler.pc = "failed" /\ handler.error = cr.error
  /\ fin.pc = "thrown" => handler.pc = "failed" /\ handler.error = fin.error
  /\ (\E i \in DOMAIN writers : writers[i].pc = "thrown") =>
       /\ handler.pc = "failed"
       /\ \E j \in DOMAIN writers :
            writers[j].pc = "thrown" /\ handler.error = writers[j].error
  /\ handler.pc = "failed" =>
       /\ handler.error # NoError
       /\ handler.errorLogged
       /\ handler.documentsWritten = -1
       /\ \/ cr.pc = "thrown"
          \/ fin.pc = "thrown"
          \/ \E i \in DOMAIN writers : writers[i].pc = "thrown"

\* A run in which two batch writes exhausted their retries.
C14_Witness ==
  /\ handler.pc = "failed"
  /\ Len(handler.dispatched) >= 2
  /\ writers[0].pc = "thrown"
  /\ writers[1].pc = "thrown"


\* Sum of the sizes of the document arrays handed to the first n writers.
RECURSIVE SumSizes(_, _)
SumSizes(ws, n) ==
  IF n = 0 THEN 0 ELSE Len(ws[n - 1].documents) + SumSizes(ws, n - 1)

\* C15: once the handler has dispatched its batches, their number n is the
\* ceiling of total / batchSize (the least n with n * batchSize >= total),
\* every batch but the last holds batchSize documents, the last holds
\* total - (n - 1) * batchSize, every batch holds between 1 and batchSize
\* documents, and the sizes sum to total.
C15_BatchSizes ==
  handler.numberOfBatches # -1 =>
    LET n     == handler.numberOfBatches
        total == config.totalDocuments
        size  == config.batchSize
    IN  /\ n >= 0
        /\ n * size >= total
        /\ n > 0 => (n - 1) * size < total
        /\ DOMAIN writers = 0..(n - 1)
        /\ handler.dispatched = [k \in 1..n |-> k - 1]
        /\ \A i \in 0..(n - 2) : Len(writers[i].documents) = size
        /\ n > 0 => Len(writers[n - 1].documents) = total - (n - 1) * size
        /\ \A i \in 0..(n - 1) :
             /\ Len(writers[i].documents) >= 1
             /\ Len(writers[i].documents) <= size
             /\ writers[i].batchNumber = i
        /\ SumSizes(writers, n) = total

\* A total that is a multiple of the batch size, split into two full batches.
C15_Witness ==
  /\ handler.numberOfBatches = 2
  /\ config.totalDocuments = 2 * config.batchSize
  /\ Len(writers[0].documents) = config.batchSize
  /\ Len(writers[1].documents) = config.batchSize

\* C16: a bulk-write run that completed reports as documentsWritten the sum of
\* the counts its batch writes returned, and that sum is the configured total,
\* whatever the attempts each batch took and the order the batches returned in.
C16_DocumentsWritten ==
  handler.pc = "done" =>
    /\ handler.documentsWritten = SumSeq([k \in 1..handler.numberOfBatches |->
                                            writers[k - 1].result])
    /\ handler.documentsWritten = config.totalDocuments
    /\ \A i \in DOMAIN writers :
         writers[i].result = Len(writers[i].documents)

\* A completed run of two batches in which the first batch needed a retry and
\* the second none.
C16_Witness ==
  /\ handler.pc = "done"
  /\ handler.numberOfBatches = 2
  /\ writers[0].attempt = 1
  /\ writers[1].attempt = 0
  /\ handler.documentsWritten = 3


\* C17: the cleanup threshold is computed when the run starts, from the clock
\* of that moment, and never changes afterwards; every document a step of the
\* run removes is older than that threshold, so a document at or after the
\* threshold, a concurrently written one included, is never removed.
C17_ThresholdFixed ==
  [][/\ (cleanup.pc = "idle" /\ cleanup'.pc # "idle") =>
          cleanup'.threshold = now - CleanupThresholdHours
     /\ cleanup.pc # "idle" => cleanup'.threshold = cleanup.threshold
     /\ \A d \in collection \ collection' :
          /\ cleanup.pc = "commit"
          /\ d.doc.timestamp < cleanup.threshold
          /\ d.id[1] = -1]_vars

\* A run of at least two page queries during which the clock advanced and a
\* batch was written, and which left both the written document and the
\* document stamped exactly with the threshold in the collection.
C17_Witness ==
  /\ cleanup.pc = "done"
  /\ cleanup.queries >= 2
  /\ now - CleanupThresholdHours > cleanup.threshold
  /\ \E d \in collection : d.id[1] = 0
  /\ \E d \in collection : d.doc.timestamp = cleanup.threshold


\* C18: a cleanup run whose page query or delete commit rejected has failed
\* with the error of that call and has produced no deleted count; from then on
\* it issues no query and no delete, and the pages deleted before the failure
\* stay deleted (the failing step and the later ones leave the collection as
\* it is).
C18_CleanupFailure ==
  [][/\ cleanup'.error # NoError =>
          /\ cleanup'.pc = "failed"
          /\ cleanup'.deletedCount = -1
          /\ \/ cleanup'.error = StoreError("query", 0, cleanup'.queries)
             \/ cleanup'.error = StoreError("delete", 0, cleanup'.commits)
          /\ collection' = collection
     /\ cleanup'.pc = "failed" => cleanup'.error # NoError
     /\ cleanup.pc = "failed" => cleanup' = cleanup
     /\ collection' \subseteq collection
     /\ Cardinality(collection \ collection') =
          cleanup'.totalDeleted - cleanup.totalDeleted]_vars

\* A run that deleted a full page and then failed on its second delete commit.
C18_Witness ==
  /\ cleanup.pc = "failed"
  /\ cleanup.error = StoreError("delete", 0, 2)
  /\ cleanup.totalDeleted = PageLimit
  /\ cleanup.deletedCount = -1
  /\ Cardinality(Matching(cleanup.threshold)) >= 1


\* C19: with no insertion of old documents meanwhile, an invocation that
\* follows failed ones never puts in a delete batch a document that is no
\* longer stored, removes only documents older than its own threshold (which
\* is no earlier than the thresholds of the failed invocations), and when it
\* completes no document older than its threshold remains: the collection is
\* what one successful run with that threshold leaves.
C19_ReinvokeSafe ==
  [][/\ cleanup'.pc = "commit" =>
          /\ cleanup'.snapshot # {}
          /\ cleanup'.snapshot \subseteq collection'
     /\ \A d \in collection \ collection' :
          /\ d \in cleanup.snapshot
          /\ d.doc.timestamp < cleanup.threshold
     /\ (cleanup.pc = "failed" /\ cleanup'.pc # "failed") =>
          /\ cleanup'.threshold = now - CleanupThresholdHours
          /\ cleanup'.threshold >= cleanup.threshold
          /\ cleanup'.totalDeleted = 0
          /\ collection' = collection
     /\ cleanup'.pc = "done" =>
          /\ { d \in collection' : d.doc.timestamp < cleanup'.threshold } = {}
          /\ cleanup'.deletedCount = cleanup'.totalDeleted]_vars

\* A second invocation that completed after the first had deleted a full page
\* and then failed; a document not older than the threshold is still stored.
C19_Witness ==
  /\ cleanup.pc = "done"
  /\ cleanup.invocation = 2
  /\ cleanup.deletedEarlier = PageLimit
  /\ cleanup.totalDeleted >= 1
  /\ \E d \in collection : d.doc.timestamp >= cleanup.threshold


\* C20: within one writeBatchWithRetry call at most one commit is in flight;
\* a commit is started only at the call's entry or when a backoff timer has
\* fired, the wait after the k-th failed attempt (k from 1) is 2^k * 100 ms,
\* every failed attempt but the last one the call allows is followed by its
\* wait, and no wait follows the attempt on which the call throws.
C20_SequentialBackoff ==
  [][\A i \in DOMAIN writers' :
       LET w == writers'[i]
           n == Len(w.outcomes)
       IN  /\ w.commits - n = (IF w.pc = "commit" THEN 1 ELSE 0)
           /\ \A k \in 1..Len(w.waits) :
                w.waits[k] = (2 ^ k) * 100 /\ w.outcomes[k] = "err"
           /\ w.pc \in {"commit", "backoff"} => Len(w.waits) = n
           /\ (w.pc \in {"returned", "thrown"} /\ n > 0) => Len(w.waits) = n - 1
           /\ w.pc = "thrown" => n = w.maxRetries /\ w.outcomes[n] = "err"
           /\ (i \in DOMAIN writers /\ w.commits # writers[i].commits) =>
                /\ writers[i].pc = "backoff"
                /\ w.commits = writers[i].commits + 1
                /\ w.waits = writers[i].waits]_vars

\* A call that failed three times: it waited 200 ms and 400 ms and threw
\* with no third wait.
C20_Witness ==
  \E i \in DOMAIN writers :
    /\ writers[i].pc = "thrown"
    /\ writers[i].commits = 3
    /\ writers[i].waits = <<200, 400>>


\* The stored documents that call i wrote.
StoredBy(i) == { d \in collection : d.id[1] = i }

\* C21: with a store whose rejected commit applies nothing, a call with
\* maxRetries >= 1 that returned has added exactly len(documents) documents,
\* those of its last attempt, however many attempts failed before; a call
\* that threw, or that has not returned yet, has added none.
C21_AtomicAddsExactly ==
  \A i \in DOMAIN writers :
    LET w == writers[i] IN
    /\ (w.pc = "returned" /\ w.maxRetries >= 1) =>
         /\ Cardinality(StoredBy(i)) = Len(w.documents)
         /\ w.result = Len(w.documents)
         /\ \A k \in 1..Len(w.documents) :
              [id |-> <<i, w.commits, k>>, doc |-> w.documents[k]] \in collection
    /\ w.pc # "returned" => StoredBy(i) = {}

\* A call for two documents that returned on its third attempt.
C21_Witness ==
  \E i \in DOMAIN writers :
    /\ writers[i].pc = "returned"
    /\ writers[i].outcomes = <<"err", "err", "ok">>
    /\ Len(writers[i].documents) = 2
    /\ Cardinality(StoredBy(i)) = 2


\* Every document the process has generated: those held by the calls and
\* those in the commits in flight or stored.
Generated ==
  UNION { { w.documents[k] : k \in 1..Len(w.documents) } \cup { b.doc : b \in w.batch } :
            w \in { writers[i] : i \in DOMAIN writers } }
    \cup { d.doc : d \in collection }

\* C22: no step changes the run identifier of the process, and every document
\* generated so far, whatever batch it was generated for and whenever, carries
\* that identifier.
C22_SameRunId ==
  [][/\ testRunId' = testRunId
     /\ \A d \in Generated' : d.metadata.testRunId = testRunId']_vars

\* Two batches generated at different clock values, both stored.
C22_Witness ==
  /\ DOMAIN writers = {0, 1}
  /\ writers[0].documents[1].timestamp # writers[1].documents[1].timestamp
  /\ Cardinality(collection) = 2
  /\ \E d, e \in collection : d.doc.timestamp # e.doc.timestamp


\* C23: in a cleanup run with no store failure and no insertion, the documents
\* deleted so far and the documents still older than the threshold always add
\* up to the number n that were older when the run started; a completed run
\* reports that number and leaves no document older than the threshold; and
\* every run that starts completes.
C23_CleanupDrains ==
  /\ [][/\ cleanup.pc # "idle" =>
             cleanup'.totalDeleted
               + Cardinality({ d \in collection' : d.doc.timestamp < cleanup'.threshold })
             = cleanup.totalDeleted + Cardinality(Matching(cleanup.threshold))
        /\ (cleanup.pc = "idle" /\ cleanup'.pc # "idle") =>
             cleanup'.totalDeleted = 0 /\ collection' = collection
        /\ cleanup'.pc = "done" =>
             /\ { d \in collection' : d.doc.timestamp < cleanup'.threshold } = {}
             /\ cleanup'.deletedCount = cleanup'.totalDeleted
             /\ cleanup'.deletedCount = SumSeq(cleanup'.pages)]_vars
  /\ (cleanup.pc # "idle") ~> (cleanup.pc = "done")

\* A run that drained MaxOldDocs old documents in full pages and a short one.
C23_Witness ==
  /\ cleanup.pc = "done"
  /\ cleanup.deletedCount = MaxOldDocs
  /\ cleanup.queries >= 3
  /\ Matching(cleanup.threshold) = {}


\* C24: against a store that may apply a batch and still reject the commit,
\* every attempt writes under identities no stored document has, so what a
\* failed attempt left is never overwritten: a call with maxRetries >= 1 that
\* returned has stored the len(documents) documents of its last attempt plus
\* whatever its failed attempts applied, each of them a copy of one of its
\* documents. The witness is a state in which that surplus is not empty.
C24_FreshIdentitiesAccumulate ==
  \A i \in DOMAIN writers :
    LET w == writers[i] IN
    /\ \A b \in w.batch : \A d \in collection : d.id # b.id
    /\ \A d \in StoredBy(i) :
         /\ d.id[2] >= 1 /\ d.id[2] <= w.commits
         /\ d.id[3] \in 1..Len(w.documents)
         /\ d.doc = w.documents[d.id[3]]
    /\ (w.pc = "returned" /\ w.maxRetries >= 1) =>
         /\ \A k \in 1..Len(w.documents) :
              [id |-> <<i, w.commits, k>>, doc |-> w.documents[k]] \in collection
         /\ Cardinality(StoredBy(i)) =
              Len(w.documents)
                + Cardinality({ d \in StoredBy(i) : d.id[2] < w.commits })

\* A call for one document that returned 1 on its second attempt and left two
\* copies of the document in the store.
C24_Witness ==
  \E i \in DOMAIN writers :
    /\ writers[i].pc = "returned"
    /\ Len(writers[i].documents) = 1
    /\ writers[i].result = 1
    /\ writers[i].outcomes = <<"err", "ok">>
    /\ Cardinality(StoredBy(i)) = 2
    /\ \E d, e \in StoredBy(i) : d.id # e.id /\ d.doc = e.doc


C26_ReturnZeroOnlyWithoutRetries ==
  \A i \in DOMAIN writers :
    LET w == writers[i]
        n == Len(w.outcomes)
    IN  /\ (w.pc = "returned" /\ w.result # Len(w.documents)) => w.maxRetries <= 0
        /\ w.maxRetries <= 0 =>
             /\ w.pc = "returned"
             /\ w.result = 0
             /\ w.commits = 0 /\ n = 0
             /\ w.error = NoError
             /\ StoredBy(i) = {}
        /\ w.maxRetries >= 1 =>
             /\ w.commits >= 1
             /\ w.pc \in {"commit", "backoff", "returned", "thrown"}
             /\ w.pc = "returned" =>
                  /\ n >= 1 /\ w.outcomes[n] = "ok"
                  /\ w.result = Len(w.documents)
             /\ w.pc = "thrown" => n = w.maxRetries /\ w.error # NoError

\* A call with two documents and maxRetries 0: it returned 0 with no commit.
C26_Witness ==
  \E i \in DOMAIN writers :
    /\ writers[i].maxRetries = 0
    /\ Len(writers[i].documents) = 2
    /\ writers[i].pc = "returned"
    /\ writers[i].result = 0
    /\ writers[i].commits = 0

====
